---- MODULE Spec2Model ----
(***************************************************************************)
(* AHardwareBuffer pool, fence creation and SurfaceControl presentation of *)
(* cmd/drift/internal/templates/android/cpp/drift_jni.c.                   *)
(*                                                                         *)
(* Handles (buffers, EGL images, GL names, fence FDs) are allocation       *)
(* serial numbers: two handles are equal iff they come from the same       *)
(* allocation.  0 is the null handle (NULL, EGL_NO_IMAGE_KHR, GL name 0).  *)
(***************************************************************************)
EXTENDS Integers, Sequences, FiniteSets, TLC

MAX_BUFFER_COUNT == 4
DEFAULT_BUFFER_COUNT == 3

\* ---- bounds of the model ------------------------------------------------
MaxAllocs == 4        \* successful AHardwareBuffer_allocate calls per run
MaxFds == 2           \* native fence FDs handed out per run
MaxAcquires == 4      \* acquireBuffer calls counted after a createBufferPool
MaxDim == 2           \* widths and heights are drawn from 1..MaxDim
MaxFrameCount == 2    \* slot counts requested in the frame loop
MaxFaults == 1        \* platform calls that fail per run

Dims == 1..MaxDim
Counts == 0..(MAX_BUFFER_COUNT + 1)

\* ---- the EGL entry points resolved by resolve_egl_extensions ------------
RequiredSyms == {"eglCreateImageKHR", "eglDestroyImageKHR",
                 "glEGLImageTargetTexture2DOES", "eglGetNativeClientBufferANDROID"}
FenceSyms == {"eglCreateSyncKHR", "eglDestroySyncKHR", "eglDupNativeFenceFDANDROID"}
EglSyms == RequiredSyms \cup FenceSyms

\* the devices of the pool's life cycle: every entry point present, exactly one
\* required entry point missing, or none present
Environments == {EglSyms, {}} \cup {EglSyms \ {s} : s \in RequiredSyms}

\* the steps of init_slot that can fail
InitSteps == {"allocate", "clientBuffer", "createImage", "fbo"}

VARIABLES
    host,           \* environment: whether libdrift.so loads, the symbols dlsym finds,
                    \* the Java members the app declares
    statics,        \* the static pointers, flags and JNI references of the Go bridge
    threads,        \* the position of each thread inside a resolve_* function
    avail,          \* environment: the symbols eglGetProcAddress can resolve
    egl,            \* the static egl_* / gl_* function pointers (TRUE = non-NULL)
    sc,             \* the static sc_* function pointers (TRUE = non-NULL)
    pool,           \* the BufferPool the caller holds, or NoPool
    gpu,            \* live platform / EGL / GL objects and the framebuffer binding
    surfaceControl, \* the ASurfaceControl the caller holds (0 = none)
    fds,            \* the native fence FDs created so far: "held" by the caller, or
                    \* "gone" (closed, or handed over to a transaction)
    pending,        \* slots whose fenced submission the GPU has not completed, oldest first
    nextId,         \* number of buffers allocated so far
    acquires,       \* acquireBuffer calls since createBufferPool (-1: a resize intervened)
    faults,         \* platform failures so far (allocation, EGL, GL, transaction)
    crashed,        \* the process called through a NULL function pointer
    last,           \* the last JNI call: name, arguments and result
    log             \* the platform calls made by the last JNI call, in order

vars == <<host, statics, threads, avail, egl, sc, pool, gpu, surfaceControl, fds, pending,
          nextId, acquires, faults, crashed, last, log>>

NoPool == [count |-> -1]

NullSlot == [buffer |-> 0, image |-> 0, texture |-> 0, fbo |-> 0, depthStencil |-> 0]

\* slots are indexed 0..MAX_BUFFER_COUNT-1 as in the C array
SlotIdx == 0..(MAX_BUFFER_COUNT - 1)

NoCall == [op |-> "none", ret |-> 0, pool |-> FALSE, width |-> 0, height |-> 0,
           count |-> 0, surface |-> 0, index |-> 0, fd |-> -1,
           failSlot |-> -1, failStep |-> "none", hazard |-> FALSE]

EmptyGpu == [buffers |-> {}, images |-> {}, textures |-> {}, fbos |-> {},
             renderbuffers |-> {}, boundFbo |-> 0]

\* ---- resolve_egl_extensions ----------------------------------------------
\* returns the new pointer table and the result (0 / -1)
resolve_egl_extensions(e) ==
    IF e["eglCreateImageKHR"] THEN [egl |-> e, ret |-> 0]
    ELSE LET e1 == [s \in EglSyms |-> IF s \in RequiredSyms THEN s \in avail ELSE e[s]]
         IN IF \E s \in RequiredSyms : ~e1[s]
            THEN [egl |-> e1, ret |-> -1]
            ELSE [egl |-> [s \in EglSyms |-> s \in avail], ret |-> 0]

\* ---- destroy_slot --------------------------------------------------------
\* AHardwareBuffer_release(slot->buffer): the buffer is no longer live
ReleaseBufferLeaks(g, buffer) == g

ReleaseBuffer(g, buffer) == [g EXCEPT !.buffers = {b \in @ : b.id # buffer}]

\* releases whatever the slot holds; returns the slot, the gpu state and the
\* platform calls made
destroy_slot(slot, g, e) ==
    LET g1 == IF slot.fbo # 0
              THEN [g EXCEPT !.fbos = @ \ {slot.fbo},
                             !.boundFbo = IF @ = slot.fbo THEN 0 ELSE @]
              ELSE g
        ev1 == IF slot.fbo # 0 THEN <<<<"glDeleteFramebuffers", slot.fbo>>>> ELSE <<>>
        g2 == IF slot.depthStencil # 0
              THEN [g1 EXCEPT !.renderbuffers = @ \ {slot.depthStencil}] ELSE g1
        ev2 == IF slot.depthStencil # 0
               THEN <<<<"glDeleteRenderbuffers", slot.depthStencil>>>> ELSE <<>>
        g3 == IF slot.texture # 0 THEN [g2 EXCEPT !.textures = @ \ {slot.texture}] ELSE g2
        ev3 == IF slot.texture # 0 THEN <<<<"glDeleteTextures", slot.texture>>>> ELSE <<>>
        di == slot.image # 0 /\ e["eglDestroyImageKHR"]
        g4 == IF di THEN [g3 EXCEPT !.images = @ \ {slot.image}] ELSE g3
        ev4 == IF di THEN <<<<"eglDestroyImageKHR", slot.image>>>> ELSE <<>>
        g5 == IF slot.buffer # 0 THEN ReleaseBuffer(g4, slot.buffer) ELSE g4
        ev5 == IF slot.buffer # 0 THEN <<<<"AHardwareBuffer_release", slot.buffer>>>> ELSE <<>>
    IN [slot |-> [buffer |-> 0,
                  image |-> IF di THEN 0 ELSE slot.image,
                  texture |-> 0, fbo |-> 0, depthStencil |-> 0],
        gpu |-> g5,
        ev |-> ev1 \o ev2 \o ev3 \o ev4 \o ev5]

\* ---- init_slot -----------------------------------------------------------
\* the AHardwareBuffer_Desc of the allocation, kept with the live buffer
BufferDescSwapped(id, width, height) == [id |-> id, width |-> height, height |-> width]

BufferDesc(id, width, height) == [id |-> id, width |-> width, height |-> height]

\* id is the serial number of the allocation; fail names the step that the
\* platform fails ("none": every step succeeds).  status is "ok", "fail"
\* (init_slot returns -1) or "crash" (a call through a NULL pointer).
init_slot(slot, width, height, g, e, id, fail) ==
    IF fail = "allocate"
    THEN [status |-> "fail", slot |-> slot, gpu |-> g, allocated |-> 0,
          ev |-> <<<<"AHardwareBuffer_allocate", 0>>>>]
    ELSE
    LET s1 == [slot EXCEPT !.buffer = id]
        g1 == [g EXCEPT !.buffers = @ \cup {BufferDesc(id, width, height)}]
        ev1 == <<<<"AHardwareBuffer_allocate", id>>>>
    IN
    IF ~e["eglGetNativeClientBufferANDROID"]
    THEN [status |-> "crash", slot |-> s1, gpu |-> g1, allocated |-> 1, ev |-> ev1]
    ELSE IF fail = "clientBuffer"
    THEN LET d == destroy_slot(s1, g1, e)
         IN [status |-> "fail", slot |-> d.slot, gpu |-> d.gpu, allocated |-> 1,
             ev |-> ev1 \o d.ev]
    ELSE IF ~e["eglCreateImageKHR"]
    THEN [status |-> "crash", slot |-> s1, gpu |-> g1, allocated |-> 1, ev |-> ev1]
    ELSE IF fail = "createImage"
    THEN LET d == destroy_slot([s1 EXCEPT !.image = 0], g1, e)
         IN [status |-> "fail", slot |-> d.slot, gpu |-> d.gpu, allocated |-> 1,
             ev |-> ev1 \o <<<<"eglCreateImageKHR", 0>>>> \o d.ev]
    ELSE
    LET s2 == [s1 EXCEPT !.image = id, !.texture = id]
        g2 == [g1 EXCEPT !.images = @ \cup {id}, !.textures = @ \cup {id}]
        ev2 == ev1 \o <<<<"eglCreateImageKHR", id>>, <<"glGenTextures", id>>>>
    IN
    IF ~e["glEGLImageTargetTexture2DOES"]
    THEN [status |-> "crash", slot |-> s2, gpu |-> g2, allocated |-> 1, ev |-> ev2]
    ELSE
    LET s3 == [s2 EXCEPT !.fbo = id, !.depthStencil = id]
        g3 == [g2 EXCEPT !.fbos = @ \cup {id}, !.renderbuffers = @ \cup {id},
                         !.boundFbo = 0]
        ev3 == ev2 \o <<<<"glGenFramebuffers", id>>, <<"glGenRenderbuffers", id>>>>
    IN
    IF fail = "fbo"
    THEN LET d == destroy_slot(s3, g3, e)
         IN [status |-> "fail", slot |-> d.slot, gpu |-> d.gpu, allocated |-> 1,
             ev |-> ev3 \o d.ev]
    ELSE [status |-> "ok", slot |-> s3, gpu |-> g3, allocated |-> 1, ev |-> ev3]


\* ---- the loops over slots ------------------------------------------------
\* for (j = lo; j < hi; j++) destroy_slot(&slots[j]);
RECURSIVE DestroyRange(_, _, _, _, _)
DestroyRange(slots, lo, hi, g, e) ==
    IF lo >= hi
    THEN [slots |-> slots, gpu |-> g, ev |-> <<>>]
    ELSE LET d == destroy_slot(slots[lo], g, e)
             rest == DestroyRange([slots EXCEPT ![lo] = d.slot], lo + 1, hi, d.gpu, e)
         IN [rest EXCEPT !.ev = <<<<"destroy_slot", lo>>>> \o d.ev \o @]

\* for (i = 0; i < n; i++) if (init_slot(&slots[i], w, h) != 0) { destroy [0, i); fail }
\* (the loop of createBufferPool; resizeBufferPool repeats it verbatim)
RECURSIVE InitLoop(_, _, _, _, _, _, _, _, _, _)
InitLoop(slots, i, n, width, height, g, e, id, failSlot, failStep) ==
    IF i >= n
    THEN [status |-> "ok", slots |-> slots, gpu |-> g, nextId |-> id, ev |-> <<>>]
    ELSE LET r == init_slot(slots[i], width, height, g, e, id + 1,
                            IF i = failSlot THEN failStep ELSE "none")
             s1 == [slots EXCEPT ![i] = r.slot]
             mark == <<<<"init_slot", i>>>>
         IN IF r.status = "ok"
            THEN LET rest == InitLoop(s1, i + 1, n, width, height, r.gpu, e, id + 1,
                                      failSlot, failStep)
                 IN [rest EXCEPT !.ev = mark \o r.ev \o @]
            ELSE IF r.status = "crash"
            THEN [status |-> "crash", slots |-> s1, gpu |-> r.gpu,
                  nextId |-> id + r.allocated, ev |-> mark \o r.ev]
            ELSE LET c == DestroyRange(s1, 0, i, r.gpu, e)
                 IN [status |-> "fail", slots |-> c.slots, gpu |-> c.gpu,
                     nextId |-> id + r.allocated, ev |-> mark \o r.ev \o c.ev]

\* the failures the platform can inject into one call: none, or step failStep
\* of the init_slot call for slot failSlot
Failures == {<<-1, "none">>} \cup ((0..(MAX_BUFFER_COUNT - 1)) \X InitSteps)

\* the pool pointer a caller passes: the pool it holds, or NULL when it holds none
PoolArgs == IF pool = NoPool THEN {FALSE} ELSE {TRUE}

\* the platform fails during this call (at most MaxFaults times per run)
Inject(failing) ==
    /\ failing => faults < MaxFaults
    /\ faults' = IF failing THEN faults + 1 ELSE faults

\* ---- createBufferPool(width, height, count) ------------------------------
EffectiveCountClamped(count) ==
    IF count < 1 THEN 1 ELSE IF count > MAX_BUFFER_COUNT THEN MAX_BUFFER_COUNT ELSE count

EffectiveCountExclusive(count) ==
    IF count < 1 \/ count >= MAX_BUFFER_COUNT THEN DEFAULT_BUFFER_COUNT ELSE count

EffectiveCount(count) ==
    IF count < 1 \/ count > MAX_BUFFER_COUNT THEN DEFAULT_BUFFER_COUNT ELSE count

HasFenceSupport(e) ==
    IF e["eglCreateSyncKHR"] /\ e["eglDestroySyncKHR"] /\ e["eglDupNativeFenceFDANDROID"]
    THEN 1 ELSE 0

createBufferPool(width, height, count, callocFails, failSlot, failStep) ==
    LET res == resolve_egl_extensions(egl)
        n == EffectiveCount(count)
        call == [NoCall EXCEPT !.op = "createBufferPool", !.width = width,
                               !.height = height, !.count = count,
                               !.failSlot = failSlot, !.failStep = failStep]
        fresh == [slots |-> [i \in SlotIdx |-> NullSlot], count |-> n,
                  width |-> width, height |-> height, current |-> -1,
                  hasFenceSupport |-> HasFenceSupport(res.egl)]
        created == InitLoop(fresh.slots, 0, n, width, height, gpu, res.egl, nextId,
                            failSlot, failStep)
    IN /\ ~crashed
       /\ pool = NoPool
       /\ nextId + n <= MaxAllocs
       /\ failSlot < n
       /\ Inject(callocFails \/ failSlot >= 0)
       /\ res.ret # 0 => (~callocFails /\ failSlot < 0)
       /\ egl' = res.egl
       /\ UNCHANGED <<host, statics, threads, avail, sc, surfaceControl, fds, pending>>
       /\ IF res.ret # 0 \/ callocFails
          THEN /\ last' = [call EXCEPT !.ret = 0]
               /\ log' = <<>>
               /\ UNCHANGED <<pool, gpu, nextId, acquires, crashed>>
          ELSE \E r \in {created} :
               /\ log' = r.ev
               /\ gpu' = r.gpu
               /\ nextId' = r.nextId
               /\ crashed' = (r.status = "crash")
               /\ pool' = IF r.status = "ok" THEN [fresh EXCEPT !.slots = r.slots]
                          ELSE NoPool
               /\ acquires' = 0
               /\ last' = [call EXCEPT !.ret = IF r.status = "ok" THEN 1 ELSE 0]

\* ---- destroyBufferPool(pool) ---------------------------------------------
destroyBufferPool(p) ==
    LET call == [NoCall EXCEPT !.op = "destroyBufferPool", !.pool = p]
        destroyed == DestroyRange(pool.slots, 0, pool.count, gpu, egl)
    IN /\ ~crashed
       /\ p \in PoolArgs
       /\ last' = call
       /\ UNCHANGED <<host, statics, threads, avail, egl, sc, surfaceControl, fds, nextId, faults, crashed>>
       /\ IF ~p
          THEN /\ log' = <<>>
               /\ UNCHANGED <<pool, gpu, acquires, pending>>
          ELSE \E d \in {destroyed} :
               /\ pending' = <<>>
               /\ log' = d.ev \o <<<<"free", 0>>>>
               /\ gpu' = d.gpu
               /\ pool' = NoPool
               /\ acquires' = 0

\* ---- acquireBuffer(pool) -------------------------------------------------
\* pool->current = (pool->current + 1) % pool->count
NextIndexOverArray(current, count) == (current + 1) % MAX_BUFFER_COUNT

NextIndex(current, count) == (current + 1) % count

\* a fence issued for slot i's latest submission is still unsignaled
InFlight(i) == \E k \in 1..Len(pending) : pending[k] = i

\* !pool || pool->count <= 0
AcquireInvalidBelowTwo(p) == ~p \/ pool.count <= 1

AcquireInvalid(p) == ~p \/ pool.count <= 0

acquireBuffer(p) ==
    LET call == [NoCall EXCEPT !.op = "acquireBuffer", !.pool = p]
        cur == NextIndex(pool.current, pool.count)
    IN /\ ~crashed
       /\ p \in PoolArgs
       /\ acquires < MaxAcquires
       /\ UNCHANGED <<host, statics, threads, avail, egl, sc, surfaceControl, fds, pending, nextId,
                      faults, crashed>>
       /\ IF AcquireInvalid(p)
          THEN /\ last' = [call EXCEPT !.ret = -1]
               /\ log' = <<>>
               /\ UNCHANGED <<pool, gpu, acquires>>
          ELSE /\ pool' = [pool EXCEPT !.current = cur]
               /\ gpu' = [gpu EXCEPT !.boundFbo = pool.slots[cur].fbo]
               /\ log' = <<<<"glBindFramebuffer", pool.slots[cur].fbo>>,
                           <<"glViewport", 0>>>>
               /\ acquires' = IF acquires < 0 THEN acquires ELSE acquires + 1
               /\ last' = [call EXCEPT !.ret = cur, !.hazard = InFlight(cur)]

\* ---- resizeBufferPool(pool, width, height) -------------------------------
\* pool->width == width && pool->height == height
SameSizeTypo(p, width, height) == p.width = width /\ p.height = width

SameSize(p, width, height) == p.width = width /\ p.height = height

\* the platform calls of a dimension-changing resize: glFinish(), the loop that
\* destroys the slots, the loop that initialises them again
ResizeCallsFinishLast(destroyed, created) ==
    destroyed \o created \o <<<<"glFinish", 0>>>>

ResizeCalls(destroyed, created) == <<<<"glFinish", 0>>>> \o destroyed \o created

\* the pool after the loops of a dimension-changing resize: pool->width,
\* pool->height and pool->current are set between them, pool->count on failure
ResizedKeepsSize(p, slots, width, height, status) ==
    [p EXCEPT !.slots = slots, !.current = -1,
              !.count = IF status = "fail" THEN 0 ELSE @]

ResizedKeepsCurrent(p, slots, width, height, status) ==
    [p EXCEPT !.slots = slots, !.width = width, !.height = height,
              !.count = IF status = "fail" THEN 0 ELSE @]

ResizedKeepsCount(p, slots, width, height, status) ==
    [p EXCEPT !.slots = slots, !.width = width, !.height = height, !.current = -1]

Resized(p, slots, width, height, status) ==
    [p EXCEPT !.slots = slots, !.width = width, !.height = height, !.current = -1,
              !.count = IF status = "fail" THEN 0 ELSE @]

resizeBufferPool(p, width, height, failSlot, failStep) ==
    LET call == [NoCall EXCEPT !.op = "resizeBufferPool", !.pool = p,
                               !.width = width, !.height = height,
                               !.failSlot = failSlot, !.failStep = failStep]
    IN /\ ~crashed
       /\ p \in PoolArgs
       /\ Inject(failSlot >= 0)
       /\ UNCHANGED <<host, statics, threads, avail, egl, sc, surfaceControl, fds>>
       /\ IF ~p
          THEN /\ failSlot = -1
               /\ last' = [call EXCEPT !.ret = -1]
               /\ log' = <<>>
               /\ UNCHANGED <<pool, gpu, nextId, acquires, crashed, pending>>
          ELSE IF SameSize(pool, width, height)
          THEN /\ failSlot = -1
               /\ last' = [call EXCEPT !.ret = 0]
               /\ log' = <<>>
               /\ UNCHANGED <<pool, gpu, nextId, acquires, crashed, pending>>
          ELSE /\ nextId + pool.count <= MaxAllocs
               /\ failSlot < pool.count
               /\ \E d \in {DestroyRange(pool.slots, 0, pool.count, gpu, egl)} :
                  \E r \in {InitLoop(d.slots, 0, pool.count, width, height, d.gpu, egl,
                                      nextId, failSlot, failStep)} :
                    /\ log' = ResizeCalls(d.ev, r.ev)
                    /\ gpu' = r.gpu
                    /\ nextId' = r.nextId
                    /\ crashed' = (r.status = "crash")
                    /\ pool' = Resized(pool, r.slots, width, height, r.status)
                    /\ acquires' = -1
                    /\ pending' = <<>>
                    /\ last' = [call EXCEPT !.ret = IF r.status = "ok" THEN 0 ELSE -1]

\* ---- createFence(pool) ---------------------------------------------------
\* syncFails: eglCreateSyncKHR returns EGL_NO_SYNC_KHR; dupFails:
\* eglDupNativeFenceFDANDROID returns a negative FD
\* the calls of createFence once the sync object exists: glFlush(),
\* egl_dupNativeFenceFD() returning fd, egl_destroySyncKHR()
FenceCallsLeaksSync(fd) ==
    <<<<"eglCreateSyncKHR", 1>>, <<"glFlush", 0>>, <<"eglDupNativeFenceFDANDROID", fd>>>>

FenceCallsFinishes(fd) ==
    <<<<"eglCreateSyncKHR", 1>>, <<"glFlush", 0>>, <<"eglDupNativeFenceFDANDROID", fd>>,
      <<"eglDestroySyncKHR", 1>>, <<"glFinish", 0>>>>

FenceCalls(fd) ==
    <<<<"eglCreateSyncKHR", 1>>, <<"glFlush", 0>>, <<"eglDupNativeFenceFDANDROID", fd>>,
      <<"eglDestroySyncKHR", 1>>>>

\* glFinish(); return -1;  after the calls made so far
FinishFallbackSkipped(calls) == calls

FinishFallback(calls) == calls \o <<<<"glFinish", 0>>>>

\* !pool || !pool->hasFenceSupport
FenceUnsupportedNullOnly(p) == ~p

FenceUnsupported(p) == ~p \/ pool.hasFenceSupport = 0

createFence(p, syncFails, dupFails) ==
    LET call == [NoCall EXCEPT !.op = "createFence", !.pool = p]
        fd == Len(fds)
    IN /\ ~crashed
       /\ p \in PoolArgs
       /\ Inject(syncFails \/ dupFails)
       /\ UNCHANGED <<host, statics, threads, avail, egl, sc, pool, gpu, surfaceControl, nextId, acquires,
                      crashed>>
       /\ IF FenceUnsupported(p)
          THEN /\ ~syncFails /\ ~dupFails
               /\ log' = FinishFallback(<<>>)
               /\ pending' = <<>>
               /\ last' = [call EXCEPT !.ret = -1]
               /\ UNCHANGED fds
          ELSE IF syncFails
          THEN /\ ~dupFails
               /\ log' = FinishFallback(<<<<"eglCreateSyncKHR", 0>>>>)
               /\ pending' = <<>>
               /\ last' = [call EXCEPT !.ret = -1]
               /\ UNCHANGED fds
          ELSE IF dupFails
          THEN /\ log' = FinishFallback(FenceCalls(-1))
               /\ pending' = <<>>
               /\ last' = [call EXCEPT !.ret = -1]
               /\ UNCHANGED fds
          ELSE /\ Len(fds) < MaxFds
               /\ log' = FenceCalls(fd)
               /\ fds' = Append(fds, "held")
               /\ pending' = IF pool.current >= 0 /\ pool.count > 0
                             THEN Append(pending, pool.current) ELSE pending
               /\ last' = [call EXCEPT !.ret = fd]

\* the GPU completes its oldest fenced submission and signals that fence
GpuComplete ==
    /\ ~crashed
    /\ pending # <<>>
    /\ pending' = Tail(pending)
    /\ UNCHANGED <<host, statics, threads, avail, egl, sc, pool, gpu, surfaceControl, fds, nextId, acquires,
                   faults, crashed, last, log>>

\* ---- resolve_surface_control ---------------------------------------------
\* libandroid.so exports the whole SurfaceControl API (API level 29 and up)
resolve_surface_control(t) ==
    IF t.createFromWindow THEN [sc |-> t, ret |-> 0]
    ELSE [sc |-> [createFromWindow |-> TRUE, createTransaction |-> TRUE], ret |-> 0]

\* ---- createSurfaceControl(surface) ---------------------------------------
\* fail: "window" (ANativeWindow_fromSurface), "create"
\* (ASurfaceControl_createFromWindow), "txn" (ASurfaceTransaction_create)
SurfaceSteps == {"none", "window", "create", "txn"}

createSurfaceControl(fail) ==
    LET res == resolve_surface_control(sc)
        call == [NoCall EXCEPT !.op = "createSurfaceControl", !.failStep = fail]
    IN /\ ~crashed
       /\ surfaceControl = 0
       /\ sc' = res.sc
       /\ Inject(fail # "none")
       /\ UNCHANGED <<host, statics, threads, avail, egl, pool, gpu, fds, pending, nextId, acquires, crashed>>
       /\ IF res.ret # 0 \/ fail = "window"
          THEN /\ log' = <<>>
               /\ last' = [call EXCEPT !.ret = 0]
               /\ UNCHANGED surfaceControl
          ELSE IF fail = "create"
          THEN /\ log' = <<<<"ASurfaceControl_createFromWindow", 0>>>>
               /\ last' = [call EXCEPT !.ret = 0]
               /\ UNCHANGED surfaceControl
          ELSE IF fail = "txn"
          THEN /\ log' = <<<<"ASurfaceControl_createFromWindow", 1>>,
                           <<"ASurfaceTransaction_create", 0>>,
                           <<"ASurfaceControl_release", 1>>>>
               /\ last' = [call EXCEPT !.ret = 0]
               /\ UNCHANGED surfaceControl
          ELSE /\ log' = <<<<"ASurfaceControl_createFromWindow", 1>>,
                           <<"ASurfaceTransaction_create", 1>>,
                           <<"ASurfaceTransaction_setVisibility", 1>>,
                           <<"ASurfaceTransaction_apply", 0>>,
                           <<"ASurfaceTransaction_delete", 0>>>>
               /\ surfaceControl' = 1
               /\ last' = [call EXCEPT !.ret = 1]

\* ---- destroySurfaceControl(surfaceControl) -------------------------------
destroySurfaceControl(h) ==
    /\ ~crashed
    /\ h = surfaceControl
    /\ last' = [NoCall EXCEPT !.op = "destroySurfaceControl", !.surface = h]
    /\ log' = IF h = 0 THEN <<>> ELSE <<<<"ASurfaceControl_release", h>>>>
    /\ surfaceControl' = 0
    /\ UNCHANGED <<host, statics, threads, avail, egl, sc, pool, gpu, fds, pending, nextId, acquires, faults,
                   crashed>>

\* ---- presentBuffer(pool, surfaceControl, bufferIndex, fenceFd) -----------
\* the fence FDs a caller can pass: -1 or an FD it still owns
FdArgs == {-1} \cup {k \in 0..(Len(fds) - 1) : fds[k + 1] = "held"}

\* the argument check of presentBuffer (p: the pool pointer is non-NULL)
PresentInvalidOffByOne(p, h, bufferIndex) ==
    ~p \/ h = 0 \/ ~sc.createTransaction \/ bufferIndex < 0 \/ bufferIndex > pool.count

PresentInvalid(p, h, bufferIndex) ==
    ~p \/ h = 0 \/ ~sc.createTransaction \/ bufferIndex < 0 \/ bufferIndex >= pool.count

\* the transaction presentBuffer builds and applies for a buffer and a fence FD
PresentCallsTwice(buffer, fenceFd) ==
    <<<<"ASurfaceTransaction_create", 1>>,
      <<"ASurfaceTransaction_setBuffer", buffer>>,
      <<"acquire_fence_fd", fenceFd>>,
      <<"ASurfaceTransaction_apply", 0>>,
      <<"ASurfaceTransaction_apply", 0>>,
      <<"ASurfaceTransaction_delete", 0>>>>

PresentCalls(buffer, fenceFd) ==
    <<<<"ASurfaceTransaction_create", 1>>,
      <<"ASurfaceTransaction_setBuffer", buffer>>,
      <<"acquire_fence_fd", fenceFd>>,
      <<"ASurfaceTransaction_apply", 0>>,
      <<"ASurfaceTransaction_delete", 0>>>>

\* the caller's table of FDs once fd has been closed or consumed
Dispose(fd) == IF fd >= 0 THEN [fds EXCEPT ![fd + 1] = "gone"] ELSE fds

\* if (fenceFd >= 0) close(fenceFd);
CloseFdLeaks(fenceFd) == <<>>

CloseFd(fenceFd) == IF fenceFd >= 0 THEN <<<<"close", fenceFd>>>> ELSE <<>>

presentBuffer(p, h, bufferIndex, fenceFd, txnFails) ==
    LET call == [NoCall EXCEPT !.op = "presentBuffer", !.pool = p, !.surface = h,
                               !.index = bufferIndex, !.fd = fenceFd]
        closing == CloseFd(fenceFd)
    IN /\ ~crashed
       /\ p \in PoolArgs
       /\ h = surfaceControl
       /\ fenceFd \in FdArgs
       /\ Inject(txnFails)
       /\ UNCHANGED <<host, statics, threads, avail, egl, sc, pool, gpu, surfaceControl, pending, nextId,
                      acquires, crashed>>
       /\ IF PresentInvalid(p, h, bufferIndex)
          THEN /\ ~txnFails
               /\ fds' = Dispose(fenceFd)
               /\ log' = closing
               /\ last' = [call EXCEPT !.ret = -1]
          ELSE IF txnFails
          THEN /\ fds' = Dispose(fenceFd)
               /\ log' = <<<<"ASurfaceTransaction_create", 0>>>> \o closing
               /\ last' = [call EXCEPT !.ret = -1, !.failStep = "txn"]
          ELSE /\ fds' = Dispose(fenceFd)
               /\ log' = PresentCalls(pool.slots[bufferIndex].buffer, fenceFd)
               /\ last' = [call EXCEPT !.ret = 0]

\* ---- closeFenceFd(fd) ----------------------------------------------------
closeFenceFd(fd) ==
    /\ ~crashed
    /\ fd \in FdArgs
    /\ fds' = Dispose(fd)
    /\ log' = IF fd >= 0 THEN <<<<"close", fd>>>> ELSE <<>>
    /\ last' = [NoCall EXCEPT !.op = "closeFenceFd", !.fd = fd]
    /\ UNCHANGED <<host, statics, threads, avail, egl, sc, pool, gpu, surfaceControl, pending, nextId,
                   acquires, faults, crashed>>

\* ---- the Go bridge: lazy symbol resolution ---------------------------------
\* the symbols of libdrift.so that the modelled resolvers look up
ResolverSyms == {"DriftRenderFrame", "DriftNeedsFrame", "DriftHitTestPlatformView"}

\* the resolvers guarded by a resolve-once flag (drift_needs_frame_resolved,
\* drift_hit_test_platform_view_resolved)
GuardedSyms == {"DriftNeedsFrame", "DriftHitTestPlatformView"}

HandlerSyms == {"DriftPlatformSetNativeHandler", "DriftSetScheduleFrameHandler"}

LibSyms == ResolverSyms \cup HandlerSyms

JavaMembers == {"PlatformChannelManager", "handleMethodCallNative", "consumeLastError",
                "nativeScheduleFrame"}

Threads == {1, 2}

FullHost == [loadable |-> TRUE, symbols |-> LibSyms, members |-> JavaMembers]

IdleThread == [pc |-> "idle", fn |-> "none", ret |-> 0]

NoStatics ==
    [drift_handle |-> FALSE,
     ptr |-> [f \in LibSyms |-> FALSE],
     resolved |-> [f \in GuardedSyms |-> FALSE],
     g_platform_channel_class |-> FALSE,
     g_handle_method_call |-> FALSE,
     g_consume_last_error |-> FALSE,
     g_native_schedule_frame |-> FALSE,
     g_native_handler_registered |-> FALSE,
     handler |-> FALSE,
     schedule_frame_handler |-> FALSE]

poolVars == <<avail, egl, sc, pool, gpu, surfaceControl, fds, pending,
              nextId, acquires, faults, crashed, last, log>>

\* dlsym(drift_handle, name), or dlsym(RTLD_DEFAULT, name) without a handle
dlsym(name) == name \in host.symbols

At(t, pc) == threads[t].pc = pc

Goto(t, pc) == threads' = [threads EXCEPT ![t].pc = pc]

Done(t, ret) == threads' = [threads EXCEPT ![t].pc = "done", ![t].ret = ret]

\* thread t enters resolve_<f>()
Call(t, f) ==
    /\ At(t, "idle")
    /\ threads' = [threads EXCEPT ![t] = [pc |-> "check", fn |-> f, ret |-> 0]]
    /\ UNCHANGED <<host, statics, poolVars>>

\* if (drift_<f>) return 0;
Cached(t) ==
    /\ At(t, "check")
    /\ IF statics.ptr[threads[t].fn]
       THEN Done(t, 0)
       ELSE Goto(t, IF threads[t].fn \in GuardedSyms THEN "flag" ELSE "load")
    /\ UNCHANGED <<host, statics, poolVars>>

\* if (drift_<f>_resolved) return 1;
ResolvedOnce(t) ==
    /\ At(t, "flag")
    /\ IF statics.resolved[threads[t].fn] THEN Done(t, 1) ELSE Goto(t, "setflag")
    /\ UNCHANGED <<host, statics, poolVars>>

\* drift_<f>_resolved = 1;
SetResolved(t) ==
    /\ At(t, "setflag")
    /\ statics' = [statics EXCEPT !.resolved[threads[t].fn] = TRUE]
    /\ Goto(t, "load")
    /\ UNCHANGED <<host, poolVars>>

\* if (!drift_handle) drift_handle = dlopen("libdrift.so", ...);
Dlopen(t) ==
    /\ At(t, "load")
    /\ statics' = [statics EXCEPT !.drift_handle = @ \/ host.loadable]
    /\ Goto(t, "sym")
    /\ UNCHANGED <<host, poolVars>>

\* drift_<f> = dlsym(...);
Dlsym(t) ==
    /\ At(t, "sym")
    /\ statics' = [statics EXCEPT !.ptr[threads[t].fn] = dlsym(threads[t].fn)]
    /\ Goto(t, "ret")
    /\ UNCHANGED <<host, poolVars>>

\* return drift_<f> ? 0 : 1;
Result(t) ==
    /\ At(t, "ret")
    /\ Done(t, IF statics.ptr[threads[t].fn] THEN 0 ELSE 1)
    /\ UNCHANGED <<host, statics, poolVars>>

\* the caller has the result and the thread is free for another call
Return(t) ==
    /\ At(t, "done")
    /\ threads' = [threads EXCEPT ![t] = IdleThread]
    /\ UNCHANGED <<host, statics, poolVars>>

\* ---- the Go bridge: platform channel initialisation ------------------------
\* resolve_and_register_native_handler() on the statics s: the statics it
\* leaves and its return value
resolve_and_register_native_handler(s) ==
    IF s.g_native_handler_registered THEN [st |-> s, ret |-> 0]
    ELSE IF ~s.drift_handle /\ ~host.loadable THEN [st |-> s, ret |-> -1]
    ELSE LET opened == [s EXCEPT !.drift_handle = TRUE]
             looked == [opened EXCEPT !.ptr["DriftPlatformSetNativeHandler"] =
                                          @ \/ dlsym("DriftPlatformSetNativeHandler")]
         IN  IF ~looked.ptr["DriftPlatformSetNativeHandler"]
             THEN [st |-> looked, ret |-> -1]
             ELSE [st |-> [looked EXCEPT !.handler = TRUE,
                                         !.g_native_handler_registered = TRUE],
                   ret |-> 0]

\* the schedule-frame registration that ends platformInit
RegisterScheduleFrame(s) ==
    IF ~s.g_native_schedule_frame THEN s
    ELSE LET looked == [s EXCEPT !.ptr["DriftSetScheduleFrameHandler"] =
                                     @ \/ (s.drift_handle
                                            /\ dlsym("DriftSetScheduleFrameHandler"))]
         IN  [looked EXCEPT !.schedule_frame_handler =
                                @ \/ looked.ptr["DriftSetScheduleFrameHandler"]]

\* the test of platformInit's early return
AlreadyInitialized(s) == s.g_platform_channel_class /\ s.g_handle_method_call

\* platformInit() on the statics s: the statics it leaves, its return value
\* and the place it returned from
PlatformInitResult(s) ==
    IF AlreadyInitialized(s) THEN [st |-> s, ret |-> 0, at |-> "already"]
    ELSE IF "PlatformChannelManager" \notin host.members
    THEN [st |-> s, ret |-> -1, at |-> "class"]
    ELSE LET s1 == [s EXCEPT !.g_platform_channel_class = TRUE,
                             !.g_handle_method_call =
                                 "handleMethodCallNative" \in host.members]
             s2 == [s1 EXCEPT !.g_consume_last_error =
                                  "consumeLastError" \in host.members]
             s3 == [s2 EXCEPT !.g_native_schedule_frame =
                                  "nativeScheduleFrame" \in host.members]
             reg == resolve_and_register_native_handler(s3)
         IN  IF ~s1.g_handle_method_call THEN [st |-> s1, ret |-> -1, at |-> "method"]
             ELSE IF ~s2.g_consume_last_error
             THEN [st |-> s2, ret |-> -1, at |-> "error"]
             ELSE IF reg.ret # 0 THEN [st |-> reg.st, ret |-> -1, at |-> "register"]
             ELSE [st |-> RegisterScheduleFrame(reg.st), ret |-> 0, at |-> "end"]

platformInit ==
    \E r \in {PlatformInitResult(statics)} :
        /\ statics' = r.st
        /\ last' = [NoCall EXCEPT !.op = "platformInit", !.ret = r.ret]
        /\ log' = <<<<r.at, 0>>>>
        /\ UNCHANGED <<host, threads, avail, egl, sc, pool, gpu, surfaceControl, fds,
                       pending, nextId, acquires, faults, crashed>>

\* ---- the specification ---------------------------------------------------
\* the state at process start on one of the hosts and one of the devices:
\* every static is zero and there is no pool, no surface and no fence
StartOn(hosts, devices) ==
    /\ host \in hosts
    /\ statics = NoStatics
    /\ threads = [t \in Threads |-> IdleThread]
    /\ avail \in devices
    /\ egl = [s \in EglSyms |-> FALSE]
    /\ sc = [createFromWindow |-> FALSE, createTransaction |-> FALSE]
    /\ pool = NoPool
    /\ gpu = EmptyGpu
    /\ surfaceControl = 0
    /\ fds = <<>>
    /\ pending = <<>>
    /\ nextId = 0
    /\ acquires = 0
    /\ faults = 0
    /\ crashed = FALSE
    /\ last = NoCall
    /\ log = <<>>

Start(devices) == StartOn({FullHost}, devices)

Init == Start(Environments)

CreatePool ==
    \E w \in Dims, h \in Dims, n \in Counts, cf \in BOOLEAN, f \in Failures :
        /\ cf => f = <<-1, "none">>
        /\ createBufferPool(w, h, n, cf, f[1], f[2])

DestroyPool == \E p \in BOOLEAN : destroyBufferPool(p)

Acquire == \E p \in BOOLEAN : acquireBuffer(p)

Resize ==
    \E p \in BOOLEAN, w \in Dims, h \in Dims, f \in Failures :
        resizeBufferPool(p, w, h, f[1], f[2])

CreateFence == \E p \in BOOLEAN, sf \in BOOLEAN, df \in BOOLEAN : createFence(p, sf, df)

CreateSurfaceControl == \E f \in SurfaceSteps : createSurfaceControl(f)

DestroySurfaceControl == \E h \in {0, 1} : destroySurfaceControl(h)

Present ==
    \E p \in BOOLEAN, h \in {0, 1}, i \in -1..(MaxFrameCount + 1),
       fd \in -1..(MaxFds - 1), tf \in BOOLEAN :
        presentBuffer(p, h, i, fd, tf)

CloseFenceFd == \E fd \in -1..(MaxFds - 1) : closeFenceFd(fd)

\* the pool's life cycle: creation, acquisition, resizing and destruction
Next ==
    \/ CreatePool
    \/ DestroyPool
    \/ Acquire
    \/ Resize

Spec == Init /\ [][Next]_vars

\* the frame loop: a pool of height 1 whose slots can only fail to allocate,
\* with fences, presentation and the GPU
FrameEnvironments == {EglSyms, EglSyms \ {"eglDupNativeFenceFDANDROID"}}

FrameFailures == {<<-1, "none">>, <<0, "allocate">>}

FrameInit == Start(FrameEnvironments)

FrameCreatePool ==
    \E w \in Dims, n \in 1..MaxFrameCount, f \in FrameFailures :
        createBufferPool(w, 1, n, FALSE, f[1], f[2])

FrameResize ==
    \E p \in BOOLEAN, w \in Dims, f \in FrameFailures :
        resizeBufferPool(p, w, 1, f[1], f[2])

FrameNext ==
    \/ FrameCreatePool
    \/ DestroyPool
    \/ Acquire
    \/ FrameResize
    \/ CreateFence
    \/ GpuComplete
    \/ CreateSurfaceControl
    \/ DestroySurfaceControl
    \/ Present
    \/ CloseFenceFd

FrameSpec == FrameInit /\ [][FrameNext]_vars

\* presentation: one pool of 1x1 slots and one surface, neither destroyed; the
\* pool can lose its slots to a resize whose first allocation fails
PresentInit == Start(FrameEnvironments)

PresentCreatePool ==
    \E n \in 1..MaxFrameCount : createBufferPool(1, 1, n, FALSE, -1, "none")

PresentEmptyPool == resizeBufferPool(TRUE, 2, 1, 0, "allocate")

PresentNext ==
    \/ PresentCreatePool
    \/ PresentEmptyPool
    \/ CreateFence
    \/ CreateSurfaceControl
    \/ Present
    \/ CloseFenceFd

PresentSpec == PresentInit /\ [][PresentNext]_vars

\* the round robin: one pool of slots of height 1 that is acquired from, resized,
\* fenced and presented on a device with every entry point
CycleInit == Start({EglSyms})

CycleSurface == createSurfaceControl("none")

CycleNext ==
    \/ PresentCreatePool
    \/ Acquire
    \/ FrameResize
    \/ CreateFence
    \/ CycleSurface
    \/ Present

CycleSpec == CycleInit /\ [][CycleNext]_vars

\* destroy_slot on its own: one slot that holds any subset of its resources
\* (handle 1 each), with the entry points as resolve_egl_extensions can leave
\* them on a device with or without eglDestroyImageKHR
SlotStates ==
    [buffer : {0, 1}, image : {0, 1}, texture : {0, 1}, fbo : {0, 1},
     depthStencil : {0, 1}]

SlotDevices == {EglSyms, EglSyms \ {"eglDestroyImageKHR"}}

SlotInit ==
    /\ host = FullHost
    /\ statics = NoStatics
    /\ threads = [t \in Threads |-> IdleThread]
    /\ avail \in SlotDevices
    /\ egl = resolve_egl_extensions([s \in EglSyms |-> FALSE]).egl
    /\ sc = [createFromWindow |-> FALSE, createTransaction |-> FALSE]
    /\ \E slot \in SlotStates :
          /\ pool = [slots |-> [i \in SlotIdx |-> IF i = 0 THEN slot ELSE NullSlot],
                     count |-> 1, width |-> 1, height |-> 1, current |-> -1,
                     hasFenceSupport |-> HasFenceSupport(egl)]
          /\ gpu = [buffers |-> IF slot.buffer # 0 THEN {BufferDesc(1, 1, 1)} ELSE {},
                    images |-> {slot.image} \ {0},
                    textures |-> {slot.texture} \ {0},
                    fbos |-> {slot.fbo} \ {0},
                    renderbuffers |-> {slot.depthStencil} \ {0},
                    boundFbo |-> 0]
    /\ surfaceControl = 0
    /\ fds = <<>>
    /\ pending = <<>>
    /\ nextId = 1
    /\ acquires = 0
    /\ faults = 0
    /\ crashed = FALSE
    /\ last = NoCall
    /\ log = <<>>

DestroySlot ==
    \E d \in {destroy_slot(pool.slots[0], gpu, egl)} :
        /\ pool' = [pool EXCEPT !.slots[0] = d.slot]
        /\ gpu' = d.gpu
        /\ log' = d.ev
        /\ last' = [NoCall EXCEPT !.op = "destroy_slot"]
        /\ UNCHANGED <<host, statics, threads, avail, egl, sc, surfaceControl, fds, pending, nextId, acquires,
                       faults, crashed>>

SlotNext == DestroySlot

SlotSpec == SlotInit /\ [][SlotNext]_vars

\* lazy resolution by two threads, whether or not libdrift.so loads and
\* whichever of the resolvers' symbols it exports
ResolveHosts ==
    [loadable : BOOLEAN, symbols : {HandlerSyms \cup r : r \in SUBSET ResolverSyms},
     members : {JavaMembers}]

ResolveInit == StartOn(ResolveHosts, {EglSyms})

ResolveNext ==
    \/ \E t \in Threads, f \in ResolverSyms : Call(t, f)
    \/ \E t \in Threads : Cached(t)
    \/ \E t \in Threads : ResolvedOnce(t)
    \/ \E t \in Threads : SetResolved(t)
    \/ \E t \in Threads : Dlopen(t)
    \/ \E t \in Threads : Dlsym(t)
    \/ \E t \in Threads : Result(t)
    \/ \E t \in Threads : Return(t)

ResolveSpec == ResolveInit /\ [][ResolveNext]_vars

\* platformInit called again and again in an app that declares any of the
\* Java members, with a libdrift.so that loads or not and exports either handler
InitHosts ==
    [loadable : BOOLEAN, symbols : {ResolverSyms \cup h : h \in SUBSET HandlerSyms},
     members : SUBSET JavaMembers]

InitInit == StartOn(InitHosts, {EglSyms})

InitNext == platformInit

InitSpec == InitInit /\ [][InitNext]_vars

\* ---- properties -----------------------------------------------------------
CallCount(calls, name) == Cardinality({k \in DOMAIN calls : calls[k][1] = name})

Occurrences(calls, call) == Cardinality({k \in DOMAIN calls : calls[k] = call})

BufferIds(g) == {b.id : b \in g.buffers}

LiveCounts(g) == <<Cardinality(g.buffers), Cardinality(g.images), Cardinality(g.textures),
                   Cardinality(g.fbos), Cardinality(g.renderbuffers)>>

\* some handle of the slot, or of allocation id, is still live in g
SlotLive(slot, g) ==
    \/ slot.buffer \in BufferIds(g)
    \/ slot.image \in g.images
    \/ slot.texture \in g.textures
    \/ slot.fbo \in g.fbos
    \/ slot.depthStencil \in g.renderbuffers

IdLive(id, g) ==
    SlotLive([buffer |-> id, image |-> id, texture |-> id, fbo |-> id,
              depthStencil |-> id], g)

\* slot holds a live buffer of the given size, a live image and a live framebuffer
SlotReady(slot, g, width, height) ==
    /\ slot.buffer # 0
    /\ \E b \in g.buffers : b.id = slot.buffer /\ b.width = width /\ b.height = height
    /\ slot.image \in g.images
    /\ slot.texture \in g.textures
    /\ slot.fbo \in g.fbos
    /\ slot.depthStencil \in g.renderbuffers

\* C1: on a pool of n slots that has not been resized since its creation, the
\* k-th acquireBuffer call returns (k - 1) mod n
C1_AcquireCycles ==
    (last.op = "acquireBuffer" /\ last.pool /\ acquires >= 1)
        => (pool.count >= 1 /\ last.ret = (acquires - 1) % pool.count)

C1_Wrapped ==
    /\ last.op = "acquireBuffer"
    /\ pool.count = 3
    /\ acquires = 4
    /\ last.ret = 0

\* C2: acquireBuffer never binds a slot while a fence issued for that slot's
\* previous submission is still unsignaled
C2_NoRebindWhilePending == last.op = "acquireBuffer" => ~last.hazard

\* C3: when the initialisation of a slot fails, createBufferPool returns 0, no
\* pool exists and the numbers of live buffers, images and GL objects are what
\* they were before the call
C3_AllOrNothing ==
    [][(/\ last'.op = "createBufferPool"
        /\ last'.failSlot >= 0
        /\ log' # <<>>
        /\ ~crashed')
          => (/\ last'.ret = 0
              /\ pool' = NoPool
              /\ LiveCounts(gpu') = LiveCounts(gpu))]_vars

\* C4: presentBuffer with a NULL pool, a NULL surface or an index outside
\* [0, count) creates and applies no transaction and closes the fence FD
\* exactly once when it is >= 0 (never when it is -1)
C4_InvalidArgs ==
    (last.op = "presentBuffer" /\ ~last.pool)
        \/ (last.op = "presentBuffer" /\ last.surface = 0)
        \/ (last.op = "presentBuffer" /\ last.index < 0)
        \/ (last.op = "presentBuffer" /\ last.pool /\ last.index >= pool.count)

C4_InvalidPresent ==
    C4_InvalidArgs
        => (/\ CallCount(log, "ASurfaceTransaction_create") = 0
            /\ CallCount(log, "ASurfaceTransaction_setBuffer") = 0
            /\ CallCount(log, "ASurfaceTransaction_apply") = 0
            /\ CallCount(log, "close") = (IF last.fd >= 0 THEN 1 ELSE 0)
            /\ last.fd >= 0 => (Occurrences(log, <<"close", last.fd>>) = 1
                                /\ fds[last.fd + 1] = "gone"))

C4_OnePastTheEnd ==
    /\ last.op = "presentBuffer"
    /\ last.pool
    /\ last.surface # 0
    /\ pool.count >= 1
    /\ last.index = pool.count
    /\ last.fd >= 0

\* C5: presentBuffer with a pool, a surface and an index in [0, count)
C5_ValidArgs ==
    /\ last.op = "presentBuffer"
    /\ last.pool
    /\ last.surface # 0
    /\ last.index >= 0
    /\ last.index < pool.count

C5_OneTransaction ==
    /\ Occurrences(log, <<"ASurfaceTransaction_create", 1>>) = 1
    /\ CallCount(log, "ASurfaceTransaction_create") = 1
    /\ CallCount(log, "ASurfaceTransaction_setBuffer") = 1
    /\ Occurrences(log, <<"ASurfaceTransaction_setBuffer",
                          pool.slots[last.index].buffer>>) = 1
    /\ Occurrences(log, <<"acquire_fence_fd", last.fd>>) = 1
    /\ CallCount(log, "ASurfaceTransaction_apply") = 1
    /\ CallCount(log, "close") = 0

\* C5 as stated: a valid presentBuffer builds one transaction that sets the
\* buffer, attaches the fence FD and sets the visibility, applies it once and
\* does not close the FD
C5_Original ==
    C5_ValidArgs
        => (C5_OneTransaction /\ CallCount(log, "ASurfaceTransaction_setVisibility") = 1)

\* C5 amended: a valid presentBuffer whose transaction is created builds one
\* transaction that sets the buffer and attaches the fence FD, without setting
\* the visibility, applies it once and does not close the FD; when the
\* transaction cannot be created nothing is applied and the FD is closed once
C5_Amended ==
    /\ (C5_ValidArgs /\ last.failStep # "txn")
          => (C5_OneTransaction
              /\ CallCount(log, "ASurfaceTransaction_setVisibility") = 0)
    /\ (C5_ValidArgs /\ last.failStep = "txn")
          => (/\ CallCount(log, "ASurfaceTransaction_setBuffer") = 0
              /\ CallCount(log, "ASurfaceTransaction_apply") = 0
              /\ CallCount(log, "close") = (IF last.fd >= 0 THEN 1 ELSE 0))

C5_Presented ==
    /\ C5_ValidArgs
    /\ last.ret = 0
    /\ last.fd >= 0
    /\ pool.slots[last.index].buffer # 0

\* C6: resizeBufferPool with the pool's current width and height returns 0 and
\* changes nothing: same pool record (slots, count, current, size, fence
\* support), same live objects, no platform call
C6_SameSizeNoOp ==
    [][(/\ last'.op = "resizeBufferPool"
        /\ last'.pool
        /\ last'.width = pool.width
        /\ last'.height = pool.height)
          => (/\ last'.ret = 0
              /\ pool' = pool
              /\ gpu' = gpu
              /\ log' = <<>>)]_vars

C6_NoOpDone ==
    /\ last.op = "resizeBufferPool"
    /\ last.pool
    /\ last.ret = 0
    /\ log = <<>>
    /\ pool.count >= 2
    /\ pool.width # pool.height

\* C7: a resizeBufferPool that returns 0 for a size different from the current
\* one keeps count, gives every slot a live buffer of the new size, and leaves
\* no buffer that was live before the call in a slot or alive
C7_ResizeReplaces ==
    [][(/\ last'.op = "resizeBufferPool"
        /\ last'.pool
        /\ last'.ret = 0
        /\ ~(last'.width = pool.width /\ last'.height = pool.height))
          => (/\ pool'.count = pool.count
              /\ pool'.width = last'.width
              /\ pool'.height = last'.height
              /\ \A i \in SlotIdx : i < pool'.count =>
                    /\ SlotReady(pool'.slots[i], gpu', last'.width, last'.height)
                    /\ pool'.slots[i].buffer \notin BufferIds(gpu)
              /\ \A i \in SlotIdx : i < pool.count =>
                    pool.slots[i].buffer \notin BufferIds(gpu'))]_vars

C7_Resized ==
    /\ last.op = "resizeBufferPool"
    /\ last.pool
    /\ last.ret = 0
    /\ log # <<>>
    /\ pool.count >= 2
    /\ pool.width # pool.height

\* C8: when the re-creation of a slot fails, resizeBufferPool returns -1, count
\* is 0, and neither a handle of an old slot nor a handle allocated during the
\* call is still live
C8_FailedResizeEmpties ==
    [][(/\ last'.op = "resizeBufferPool"
        /\ last'.pool
        /\ last'.failSlot >= 0
        /\ ~crashed')
          => (/\ last'.ret = -1
              /\ pool'.count = 0
              /\ \A i \in SlotIdx : i < pool.count => ~SlotLive(pool.slots[i], gpu')
              /\ \A id \in (nextId + 1)..nextId' : ~IdLive(id, gpu'))]_vars

\* C9: whenever resizeBufferPool returns 0 the pool holds at least one slot and
\* every slot is fully initialised at the requested size
C9_SuccessMeansReady ==
    (last.op = "resizeBufferPool" /\ last.pool /\ last.ret = 0)
        => (/\ pool.count >= 1
            /\ \A i \in SlotIdx : i < pool.count =>
                  SlotReady(pool.slots[i], gpu, last.width, last.height))

\* C10: a createBufferPool(width, height, count) with count in 1..MAX_BUFFER_COUNT
\* that returns a pool returns one with exactly count slots, each holding a
\* live buffer of width x height
C10_CreatedAsRequested ==
    (/\ last.op = "createBufferPool"
     /\ last.ret # 0
     /\ last.count >= 1
     /\ last.count <= MAX_BUFFER_COUNT)
        => (/\ pool # NoPool
            /\ pool.count = last.count
            /\ pool.width = last.width
            /\ pool.height = last.height
            /\ \A i \in SlotIdx :
                  IF i < pool.count
                  THEN SlotReady(pool.slots[i], gpu, last.width, last.height)
                  ELSE pool.slots[i] = NullSlot)

C10_CreatedFull ==
    /\ last.op = "createBufferPool"
    /\ last.ret # 0
    /\ last.count = MAX_BUFFER_COUNT
    /\ pool.count = MAX_BUFFER_COUNT
    /\ last.width # last.height

\* C11: a createBufferPool whose count is below 1 or above MAX_BUFFER_COUNT,
\* on a device with every required entry point and with no platform failure
\* during the call, returns a pool of exactly DEFAULT_BUFFER_COUNT ready slots
C11_OutOfRange(c) == c < 1 \/ c > MAX_BUFFER_COUNT

C11_FallbackToDefault ==
    [][(/\ last'.op = "createBufferPool"
        /\ C11_OutOfRange(last'.count)
        /\ RequiredSyms \subseteq avail
        /\ faults' = faults)
          => (/\ last'.ret # 0
              /\ pool' # NoPool
              /\ pool'.count = DEFAULT_BUFFER_COUNT
              /\ \A i \in SlotIdx :
                    IF i < DEFAULT_BUFFER_COUNT
                    THEN SlotReady(pool'.slots[i], gpu', last'.width, last'.height)
                    ELSE pool'.slots[i] = NullSlot)]_vars

C11_AboveMax ==
    /\ last.op = "createBufferPool"
    /\ last.count = MAX_BUFFER_COUNT + 1
    /\ last.ret # 0
    /\ pool.count = DEFAULT_BUFFER_COUNT

\* C12: createFence on a pool without fence support returns -1 and calls
\* glFinish exactly once, creating no sync object
C12_Incapable ==
    /\ last.op = "createFence"
    /\ last.pool
    /\ pool # NoPool
    /\ pool.hasFenceSupport = 0

C12_FinishAndSentinel ==
    C12_Incapable
        => (/\ last.ret = -1
            /\ CallCount(log, "glFinish") = 1
            /\ CallCount(log, "eglCreateSyncKHR") = 0)

C12_FellBack == C12_Incapable /\ pool.count >= 1 /\ last.ret = -1

\* position k of calls is a slot destruction / the creation of a slot
IsDestruction(calls, k) == calls[k][1] = "destroy_slot"

IsCreation(calls, k) == calls[k][1] \in {"init_slot", "AHardwareBuffer_allocate"}

\* a glFinish precedes position k of calls
FinishedBefore(calls, k) == \E j \in 1..(k - 1) : calls[j][1] = "glFinish"

\* C13: destroyBufferPool on a pool waits for the GPU to go idle before it
\* destroys a slot: a glFinish precedes every slot destruction of the call
C13_IdleBeforeDestroy ==
    (last.op = "destroyBufferPool" /\ last.pool)
        => \A k \in DOMAIN log : IsDestruction(log, k) => FinishedBefore(log, k)

\* C14: a resizeBufferPool that changes the dimensions calls glFinish once,
\* before any slot is destroyed, and destroys every old slot (releasing its
\* buffer) before it creates any new slot
C14_ResizeInOrder ==
    [][(/\ last'.op = "resizeBufferPool"
        /\ last'.pool
        /\ ~SameSize(pool, last'.width, last'.height))
          => (/\ CallCount(log', "glFinish") = 1
              /\ \A k \in DOMAIN log' :
                    IsDestruction(log', k) => FinishedBefore(log', k)
              /\ \A i \in 0..(pool.count - 1) :
                    \E k \in DOMAIN log' :
                        /\ log'[k] = <<"destroy_slot", i>>
                        /\ \A j \in DOMAIN log' : IsCreation(log', j) => k < j
              /\ \A i \in 0..(pool.count - 1) :
                    pool.slots[i].buffer # 0 =>
                        \E k \in DOMAIN log' :
                            /\ log'[k] = <<"AHardwareBuffer_release", pool.slots[i].buffer>>
                            /\ \A j \in DOMAIN log' : IsCreation(log', j) => k < j)]_vars

C14_ResizedTwoSlots ==
    /\ last.op = "resizeBufferPool"
    /\ last.pool
    /\ last.ret = 0
    /\ pool.count >= 2
    /\ CallCount(log, "destroy_slot") >= 2
    /\ CallCount(log, "init_slot") >= 2

\* C15: between operations every slot below count holds a live buffer whose
\* dimensions are the pool's recorded width and height
C15_UniformDimensions ==
    (pool # NoPool /\ ~crashed)
        => \A i \in SlotIdx :
              i < pool.count
                => \E b \in gpu.buffers : /\ b.id = pool.slots[i].buffer
                                          /\ b.width = pool.width
                                          /\ b.height = pool.height

C15_ResizedPool ==
    /\ last.op = "resizeBufferPool"
    /\ last.ret = 0
    /\ pool.count >= 2
    /\ pool.width # pool.height
    /\ CallCount(log, "init_slot") >= 2
    /\ ~crashed

\* C16: no slot is bound twice without a fenced submission and a wait on that
\* fence in between; in particular an acquireBuffer never binds the slot that
\* the call immediately before it, another acquireBuffer, has bound
C16_NoBoundToBound ==
    [][~(/\ last.op = "acquireBuffer"
         /\ last.ret >= 0
         /\ last'.op = "acquireBuffer"
         /\ last'.ret = last.ret
         /\ pool' # NoPool
         /\ gpu.boundFbo = pool'.slots[last'.ret].fbo
         /\ CallCount(log', "glBindFramebuffer") = 1)]_vars

\* C17 as stated: createFence, presentBuffer and resizeBufferPool leave the
\* pool's current index unchanged
C17_Original ==
    [][(/\ last'.op \in {"createFence", "presentBuffer", "resizeBufferPool"}
        /\ pool # NoPool
        /\ pool' # NoPool)
          => pool'.current = pool.current]_vars

\* C17 amended: createFence, presentBuffer and a same-size resizeBufferPool
\* leave current unchanged, a dimension-changing resizeBufferPool sets it to
\* -1, and an acquireBuffer on a pool with slots returns and stores
\* (current + 1) mod count
C17_Amended ==
    [][/\ (last'.op \in {"createFence", "presentBuffer"} /\ pool # NoPool)
            => (pool' # NoPool /\ pool'.current = pool.current)
       /\ (last'.op = "resizeBufferPool" /\ last'.pool)
            => pool'.current = (IF SameSize(pool, last'.width, last'.height)
                                THEN pool.current ELSE -1)
       /\ (last'.op = "acquireBuffer" /\ last'.ret >= 0)
            => (/\ pool.count >= 1
                /\ last'.ret = (pool.current + 1) % pool.count
                /\ pool'.current = last'.ret)]_vars

C17_RestartedAfterResize ==
    /\ last.op = "acquireBuffer"
    /\ last.ret = 0
    /\ acquires = -1
    /\ pool.count >= 2
    /\ fds # <<>>

\* C18: presentBuffer disposes of the fence FD it is given exactly once: a FD
\* >= 0 is either attached to the one transaction that is applied (valid
\* arguments and a transaction) or closed once by presentBuffer (invalid
\* arguments, or no transaction), never both and never neither; -1 is never
\* closed
C18_Attached == Occurrences(log, <<"acquire_fence_fd", last.fd>>)

C18_Closed == CallCount(log, "close")

C18_DisposedOnce ==
    last.op = "presentBuffer"
        => (/\ last.fd >= 0
                 => (/\ C18_Attached + C18_Closed = 1
                     /\ C18_Closed = Occurrences(log, <<"close", last.fd>>)
                     /\ (C18_Attached = 1) <=> (C5_ValidArgs /\ last.failStep # "txn")
                     /\ fds[last.fd + 1] = "gone")
            /\ C18_Attached = 1 => CallCount(log, "ASurfaceTransaction_apply") = 1
            /\ C18_Attached = 0 => CallCount(log, "ASurfaceTransaction_apply") = 0
            /\ last.fd < 0 => C18_Closed = 0)

C18_ClosedOnFailure ==
    /\ last.op = "presentBuffer"
    /\ C5_ValidArgs
    /\ last.failStep = "txn"
    /\ last.fd >= 0
    /\ C18_Closed = 1

\* a createFence call on a pool with fence support
FenceCapableCall ==
    /\ last.op = "createFence"
    /\ last.pool
    /\ pool # NoPool
    /\ pool.hasFenceSupport # 0

\* C19: createFence on a pool with fence support first creates the sync
\* object; when that succeeds it flushes, extracts the FD and destroys the sync
\* object, in this order and once each, on the success path and when the
\* extraction fails; a call that succeeds returns the extracted FD, >= 0
C19_SyncInOrder ==
    FenceCapableCall
        => (/\ CallCount(log, "eglCreateSyncKHR") = 1
            /\ log[1][1] = "eglCreateSyncKHR"
            /\ IF log[1][2] # 0
               THEN /\ Len(log) >= 4
                    /\ log[2][1] = "glFlush"
                    /\ log[3][1] = "eglDupNativeFenceFDANDROID"
                    /\ log[4][1] = "eglDestroySyncKHR"
                    /\ CallCount(log, "glFlush") = 1
                    /\ CallCount(log, "eglDupNativeFenceFDANDROID") = 1
                    /\ CallCount(log, "eglDestroySyncKHR") = 1
                    /\ last.ret = (IF log[3][2] >= 0 THEN log[3][2] ELSE -1)
               ELSE /\ CallCount(log, "eglDestroySyncKHR") = 0
                    /\ CallCount(log, "eglDupNativeFenceFDANDROID") = 0
                    /\ last.ret = -1)

C19_ExtractionFailed ==
    /\ FenceCapableCall
    /\ Occurrences(log, <<"eglDupNativeFenceFDANDROID", -1>>) = 1
    /\ CallCount(log, "eglDestroySyncKHR") = 1
    /\ last.ret = -1

\* C20 as stated: createFence on a pool with fence support never calls glFinish
C20_Original == FenceCapableCall => CallCount(log, "glFinish") = 0

\* C20 amended: createFence on a pool with fence support calls glFinish only
\* when it returns -1 (the sync object or its FD could not be obtained), and
\* then once, after its other calls; a call that returns a FD calls no glFinish
C20_Amended ==
    FenceCapableCall
        => IF last.ret >= 0
           THEN CallCount(log, "glFinish") = 0
           ELSE /\ CallCount(log, "glFinish") = 1
                /\ log[Len(log)][1] = "glFinish"
                /\ \/ Occurrences(log, <<"eglCreateSyncKHR", 0>>) = 1
                   \/ Occurrences(log, <<"eglDupNativeFenceFDANDROID", -1>>) = 1

C20_FenceReturned ==
    /\ FenceCapableCall
    /\ last.ret >= 0
    /\ pool.count >= 1
    /\ fds[last.ret + 1] = "held"

\* C21: a createFence that returns -1 has called glFinish, once and as its
\* last call, whichever path returned: NULL pool, no fence support, no sync
\* object, no FD; no fenced submission is pending after it
C21_SentinelMeansFinished ==
    (last.op = "createFence" /\ last.ret = -1)
        => (/\ log # <<>>
            /\ log[Len(log)] = <<"glFinish", 0>>
            /\ CallCount(log, "glFinish") = 1
            /\ pending = <<>>)

C21_NoSyncObject ==
    /\ last.op = "createFence"
    /\ last.ret = -1
    /\ last.pool
    /\ Occurrences(log, <<"eglCreateSyncKHR", 0>>) = 1

\* the platform calls that release what was built on the buffer of allocation id
Dependents(id) ==
    {<<"glDeleteFramebuffers", id>>, <<"glDeleteRenderbuffers", id>>,
     <<"glDeleteTextures", id>>, <<"eglDestroyImageKHR", id>>}

\* C22: whenever a call releases a platform buffer, the framebuffer, texture
\* and image built on that buffer have been released before it: none of them
\* is released after the buffer and none of them is still live
C22_BufferLast ==
    \A k \in DOMAIN log :
        log[k][1] = "AHardwareBuffer_release"
            => (/\ \A j \in DOMAIN log : log[j] \in Dependents(log[k][2]) => j < k
                /\ log[k][2] \notin gpu.fbos
                /\ log[k][2] \notin gpu.textures
                /\ log[k][2] \notin gpu.images)

\* the same on a device where every required entry point resolves
C22_BufferLastWhenResolved == RequiredSyms \subseteq avail => C22_BufferLast

\* the platform calls that release exactly what slot holds
HeldReleases(slot) ==
    {<<"glDeleteFramebuffers", slot.fbo>>, <<"glDeleteRenderbuffers", slot.depthStencil>>,
     <<"glDeleteTextures", slot.texture>>, <<"eglDestroyImageKHR", slot.image>>,
     <<"AHardwareBuffer_release", slot.buffer>>} \ {<<name, 0>> : name \in
        {"glDeleteFramebuffers", "glDeleteRenderbuffers", "glDeleteTextures",
         "eglDestroyImageKHR", "AHardwareBuffer_release"}}

\* C23: destroy_slot applied to a slot holding any subset of its resources
\* releases exactly the resources held, each once, and nulls every field (so
\* that a second application releases nothing)
C23_ReleasesWhatIsHeld ==
    [][last'.op = "destroy_slot"
          => (/\ {log'[k] : k \in DOMAIN log'} = HeldReleases(pool.slots[0])
              /\ Len(log') = Cardinality(HeldReleases(pool.slots[0]))
              /\ pool'.slots[0] = NullSlot)]_vars

\* C23, second part: in the pool's life cycle no handle is released twice: a
\* call releases a handle once, and only one that was live before the call or
\* that the call itself created
C23_NeverReleasedTwice ==
    [][\A k \in DOMAIN log' :
          log'[k][1] = "AHardwareBuffer_release"
              => (/\ Occurrences(log', log'[k]) = 1
                  /\ \/ log'[k][2] \in BufferIds(gpu)
                     \/ \E j \in 1..(k - 1) :
                           log'[j] = <<"AHardwareBuffer_allocate", log'[k][2]>>)]_vars

\* C24: a pool is fence-capable exactly when the device offers the three
\* fence entry points, and no operation on the pool changes its capability
C24_DetectedAtCreation ==
    pool # NoPool => (pool.hasFenceSupport = 1 <=> FenceSyms \subseteq avail)

C24_NeverChanged ==
    (pool # NoPool /\ pool' # NoPool /\ last'.op # "createBufferPool")
        => pool'.hasFenceSupport = pool.hasFenceSupport

C24_CapabilityFixed == [][C24_DetectedAtCreation' /\ C24_NeverChanged]_vars

\* the same with the capability read off the resolved pointers
C24_CapabilityOfPointers ==
    [][/\ pool' # NoPool => pool'.hasFenceSupport = HasFenceSupport(egl')
       /\ C24_NeverChanged]_vars

\* C25: a thread whose resolver call has finished on a symbol that libdrift.so
\* exports got 0, whatever the other thread was doing in the meantime
C25_PresentSymbolResolves ==
    \A t \in Threads :
        (At(t, "done") /\ dlsym(threads[t].fn)) => threads[t].ret = 0

\* the same for the resolver without a resolve-once flag
C25_UnguardedResolves ==
    \A t \in Threads :
        (At(t, "done") /\ dlsym(threads[t].fn) /\ threads[t].fn \notin GuardedSyms)
            => threads[t].ret = 0

\* C26: whenever platformInit has returned 0, the native method handler is
\* registered with the Go side (and the two references the early return tests
\* are set), also when an earlier call returned -1
C26_SuccessMeansRegistered ==
    (last.op = "platformInit" /\ last.ret = 0)
        => (/\ statics.g_platform_channel_class /\ statics.g_handle_method_call
            /\ statics.g_native_handler_registered /\ statics.handler)

\* the same for the calls that run to the end of platformInit
C26_FullRunRegisters ==
    (last.op = "platformInit" /\ last.ret = 0 /\ log = <<<<"end", 0>>>>)
        => (statics.g_native_handler_registered /\ statics.handler)

\* slot holds a platform buffer, an image and a framebuffer that are live in g
SlotInitialised(slot, g) ==
    /\ slot.buffer # 0 /\ slot.buffer \in BufferIds(g)
    /\ slot.image # 0 /\ slot.image \in g.images
    /\ slot.fbo # 0 /\ slot.fbo \in g.fbos

\* C27: in every state of a live pool every slot with index in [0, count) holds
\* a live platform buffer, a live image and a live framebuffer; so a present
\* that passes validation hands a live buffer to the compositor and an acquire
\* binds a live framebuffer
C27_SlotsInitialised ==
    /\ pool # NoPool =>
           \A i \in SlotIdx : i < pool.count => SlotInitialised(pool.slots[i], gpu)
    /\ (last.op = "presentBuffer" /\ last.ret = 0) =>
           \E b \in BufferIds(gpu) :
               b # 0 /\ Occurrences(log, <<"ASurfaceTransaction_setBuffer", b>>) = 1
    /\ (last.op = "acquireBuffer" /\ last.ret >= 0) =>
           (log[1][1] = "glBindFramebuffer" /\ log[1][2] # 0 /\ log[1][2] \in gpu.fbos)

\* a resized pool of two slots was acquired from twice
C27_AcquiredAfterResize ==
    /\ pool # NoPool /\ pool.count = 2 /\ pool.width # pool.height
    /\ last.op = "acquireBuffer" /\ last.ret = 1

\* the sum of count over the live pools
PooledSlots == IF pool = NoPool THEN 0 ELSE pool.count

\* C28: after every call that returned, the number of live platform buffers
\* equals the sum of count over the live pools: none after a failed
\* createBufferPool, none for a pool whose resize failed, none after
\* destroyBufferPool
C28_BuffersConserved == ~crashed => Cardinality(gpu.buffers) = PooledSlots

\* a pool emptied by a failed resize has been destroyed
C28_DestroyedAfterFailedResize ==
    /\ last.op = "destroyBufferPool" /\ last.pool
    /\ log = <<<<"free", 0>>>>
    /\ pool = NoPool

\* C29: acquireBuffer on a NULL pool or on a pool with count <= 0 returns -1,
\* makes no platform call, binds no framebuffer and leaves the pool (current
\* included) as it was; on a pool with count >= 1 it returns an index in
\* [0, count) which is the pool's current after the call
C29_AcquireGuarded ==
    [][last'.op = "acquireBuffer" =>
          IF ~last'.pool \/ pool.count <= 0
          THEN /\ last'.ret = -1
               /\ log' = <<>>
               /\ gpu' = gpu
               /\ pool' = pool
          ELSE /\ last'.ret \in 0..(pool.count - 1)
               /\ pool'.count = pool.count
               /\ pool'.current = last'.ret]_vars

\* a pool emptied by a failed resize was acquired from
C29_AcquiredFromEmptyPool ==
    /\ pool # NoPool /\ pool.count = 0
    /\ last.op = "acquireBuffer" /\ last.pool /\ last.ret = -1

\* the four required entry points are non-NULL in the pointer table e
AllRequired(e) == \A s \in RequiredSyms : e[s]

\* C30: in every createBufferPool call, resolve_egl_extensions returns 0 only
\* if the four required entry points are non-NULL afterwards, and the call
\* reaches the initialisation of slot 0 only then
C30_SuccessMeansResolved ==
    [][last'.op = "createBufferPool" =>
          /\ resolve_egl_extensions(egl).ret = 0 => AllRequired(egl')
          /\ log' # <<>> => AllRequired(egl')]_vars

\* the same for the first createBufferPool call of the process
C30_FirstCallResolves ==
    [][(last'.op = "createBufferPool" /\ egl = [s \in EglSyms |-> FALSE]) =>
          /\ resolve_egl_extensions(egl).ret = 0 => AllRequired(egl')
          /\ log' # <<>> => AllRequired(egl')]_vars

====
